---- MODULE Spec2Model ----
(***************************************************************************)
(* Model of PomodoroApp (src/pomodoro.py): the timer/session state machine *)
(* and its two kinds of threads.  The main (UI) thread runs one menu       *)
(* callback at a time; a daemon thread runs timer_loop.  No lock protects  *)
(* the shared attributes, so every statement of every method is one step   *)
(* and the steps of the threads interleave freely.                         *)
(***************************************************************************)
EXTENDS Integers, FiniteSets, Sequences, TLC

\* ---- bounds (durations are scaled down from minutes to a few ticks) ----
FocusDuration == 2
ShortRestDuration == 1
LongRestDuration == 2
MaxSessions == 4
MaxThreads == 2
MaxIdle == 3
MaxThreshold == 3

\* ---- program constants ----
SessionsUntilLongRest == 4
ActiveThreshold == 3

\* TimerState
IDLE == "idle"
FOCUS == "focus"
SHORT_REST == "short_rest"
LONG_REST == "long_rest"
WAITING_FOR_USER == "waiting"

TimerState == {IDLE, FOCUS, SHORT_REST, LONG_REST, WAITING_FOR_USER}
RestStates == {SHORT_REST, LONG_REST}
TimedStates == {FOCUS, SHORT_REST, LONG_REST}

Main == 0
Timers == 1..MaxThreads
Threads == {Main} \cup Timers
IdleTimes == 0..MaxIdle

VARIABLES
    state,               \* self.state
    time_remaining,      \* self.time_remaining
    running,             \* self.running
    completed_sessions,  \* self.completed_sessions
    sessions_today,      \* self.sessions_today
    sessions_until_long_rest, \* self.sessions_until_long_rest
    timer_thread,        \* self.timer_thread (0 is None)
    title,               \* self.title, the menu bar title
    start_cb,            \* start_button has a callback
    skip_cb,             \* the callback of skip_button
    stop_cb,             \* stop_button has a callback
    pc,                  \* position of each thread
    is_long,             \* the is_long local / argument of each thread
    tmp,                 \* the value loaded by `self.time_remaining -= 1`
    cmd,                 \* the menu callback the main thread runs or ran last
    loaded,              \* what the countdown was last loaded for
    ticks,               \* decrements stored since the countdown was loaded
    prev_state,          \* the state a thread's last store to self.state overwrote
    last_note,           \* the latest rumps.notification, by the state it announces
    idle_time,           \* the idle_time local of wait_for_user
    menu_for             \* the branch update_menu_state has taken

sharedVars == <<state, time_remaining, running>>
counterVars == <<completed_sessions, sessions_today>>
menuVars == <<start_cb, skip_cb, stop_cb>>
localVars == <<is_long, tmp, prev_state>>
ghostVars == <<loaded, ticks>>
vars == <<state, time_remaining, running, completed_sessions, sessions_today,
          sessions_until_long_rest,
          timer_thread, title, start_cb, skip_cb, stop_cb, pc, is_long, tmp,
          cmd, loaded, ticks, prev_state, last_note, idle_time, menu_for>>

\* ---- pure helpers ----

\* format_time: divmod(int(seconds), 60), rendered MM:SS
format_time(seconds) == <<seconds \div 60, seconds % 60>>

\* update_title: the title for a (state, time_remaining) pair
TitleOf(s, r) ==
    IF s = IDLE THEN <<"tomato", "Ready", 0, 0>>
    ELSE IF s = FOCUS
         THEN <<"tomato", "time", format_time(r)[1], format_time(r)[2]>>
    ELSE IF s \in RestStates
         THEN <<"coffee", "time", format_time(r)[1], format_time(r)[2]>>
    ELSE <<"tomato", "Waiting...", 0, 0>>

\* update_menu_state: <<start_cb, skip_cb, stop_cb>> for a state
MenuOf(s) ==
    IF s = IDLE THEN <<TRUE, "none", FALSE>>
    ELSE IF s = FOCUS THEN <<FALSE, "skip_to_rest", TRUE>>
    ELSE IF s \in RestStates THEN <<FALSE, "skip_to_focus", TRUE>>
    ELSE <<TRUE, "none", TRUE>>

\* skip_to_rest testing the counter without the + 1
SkipIsLongNoIncrement(completed, n) == completed % n = 0

\* skip_to_rest, line 289
SkipIsLong(completed, n) == (completed + 1) % n = 0

\* timer_loop testing the counter as skip_to_rest does, one too far
NaturalIsLongOffByOne(completed, n) == (completed + 1) % n = 0

\* timer_loop, line 340 (completed is the counter after the increment)
NaturalIsLong(completed, n) == completed % n = 0

\* skip_to_rest without its test of the state
SkipToRestAlways(s) == TRUE

\* skip_to_rest, line 288
SkipToRestApplies(s) == s = FOCUS

\* skip_to_focus, line 294
SkipToFocusApplies(s) == s \in RestStates

\* start_rest, lines 266-275
RestState(long) == IF long THEN LONG_REST ELSE SHORT_REST
RestDuration(long) == IF long THEN LongRestDuration ELSE ShortRestDuration

\* the activity test with the bound included
UserActiveInclusive(seconds) == seconds <= ActiveThreshold

\* get_idle_time() < 3
UserActive(seconds) == seconds < ActiveThreshold

\* Thread.is_alive()
Alive(t) == pc[t] \notin {"none", "unstarted", "dead"}

\* start_focus with the liveness test inverted
ShouldSpawnIfAlive == timer_thread = 0 \/ Alive(timer_thread)

\* start_focus, line 260
ShouldSpawn == timer_thread = 0 \/ ~Alive(timer_thread)

\* a Thread object that is not running: never created, or finished
FreeThreads == {t \in Timers : pc[t] \in {"none", "dead"}}
NewThread == CHOOSE t \in FreeThreads : \A u \in FreeThreads : t <= u

\* where a thread continues when start_focus / start_rest returns
Return(t) == IF t = Main THEN "main_idle" ELSE "tl_while"

Goto(t, l) == pc' = [pc EXCEPT ![t] = l]

Init ==
    /\ state = IDLE
    /\ time_remaining = 0
    /\ running = FALSE
    /\ completed_sessions = 0
    /\ sessions_today = 0
    /\ sessions_until_long_rest = SessionsUntilLongRest
    /\ timer_thread = 0
    /\ title = <<"tomato", "Ready", 0, 0>>
    /\ start_cb = TRUE
    /\ skip_cb = "none"
    /\ stop_cb = FALSE
    /\ pc = [t \in Threads |-> IF t = Main THEN "main_idle" ELSE "none"]
    /\ is_long = [t \in Threads |-> FALSE]
    /\ tmp = [t \in Threads |-> 0]
    /\ cmd = "none"
    /\ loaded = "none"
    /\ ticks = 0
    /\ prev_state = [t \in Threads |-> IDLE]
    /\ last_note = "none"
    /\ idle_time = [t \in Threads |-> 0]
    /\ menu_for = [t \in Threads |-> IDLE]

\* ---- menu clicks: the main thread dispatches an enabled callback ----

ClickStartFocus ==
    /\ pc[Main] = "main_idle"
    /\ start_cb
    /\ cmd' = "start_focus"
    /\ Goto(Main, "sf_state")
    /\ UNCHANGED <<sessions_until_long_rest, last_note, idle_time, menu_for, sharedVars, counterVars, timer_thread, title, menuVars,
                   localVars, ghostVars>>

ClickSkip ==
    /\ pc[Main] = "main_idle"
    /\ skip_cb # "none"
    /\ cmd' = skip_cb
    /\ Goto(Main, IF skip_cb = "skip_to_rest" THEN "skr_check" ELSE "skf_check")
    /\ UNCHANGED <<sessions_until_long_rest, last_note, idle_time, menu_for, sharedVars, counterVars, timer_thread, title, menuVars,
                   localVars, ghostVars>>

ClickStop ==
    /\ pc[Main] = "main_idle"
    /\ stop_cb
    /\ cmd' = "stop_timer"
    /\ Goto(Main, "st_running")
    /\ UNCHANGED <<sessions_until_long_rest, last_note, idle_time, menu_for, sharedVars, counterVars, timer_thread, title, menuVars,
                   localVars, ghostVars>>

\* the Quit item is always enabled
ClickQuit ==
    /\ pc[Main] = "main_idle"
    /\ cmd' = "quit_app"
    /\ Goto(Main, "q_running")
    /\ UNCHANGED <<sessions_until_long_rest, last_note, idle_time, menu_for,
                   sharedVars, counterVars, timer_thread, title, menuVars,
                   localVars, ghostVars>>

\* ---- quit_app (lines 364-367) ----

QuitRunning ==
    /\ pc[Main] = "q_running"
    /\ running' = FALSE
    /\ Goto(Main, "q_quit")
    /\ UNCHANGED <<sessions_until_long_rest, last_note, idle_time, menu_for,
                   state, time_remaining, counterVars, timer_thread, title,
                   menuVars, localVars, cmd, ghostVars>>

\* rumps.quit_application(): the process ends and takes its daemon threads
QuitApplication ==
    /\ pc[Main] = "q_quit"
    /\ pc' = [t \in Threads |->
                IF t = Main THEN "exited"
                ELSE IF pc[t] = "none" THEN "none" ELSE "dead"]
    /\ UNCHANGED <<sessions_until_long_rest, last_note, idle_time, menu_for,
                   sharedVars, counterVars, timer_thread, title, menuVars,
                   localVars, cmd, ghostVars>>

\* ---- start_focus (lines 247-262), run by the main or a timer thread ----

StartFocusState(t) ==
    /\ pc[t] = "sf_state"
    /\ state' = FOCUS
    /\ prev_state' = [prev_state EXCEPT ![t] = state]
    /\ Goto(t, "sf_time")
    /\ UNCHANGED <<sessions_until_long_rest, last_note, idle_time, menu_for, time_remaining, running, counterVars, timer_thread, title,
                   menuVars, is_long, tmp, cmd, ghostVars>>

StartFocusTime(t) ==
    /\ pc[t] = "sf_time"
    /\ time_remaining' = FocusDuration
    /\ loaded' = "focus"
    /\ ticks' = 0
    /\ Goto(t, "sf_running")
    /\ UNCHANGED <<sessions_until_long_rest, last_note, idle_time, menu_for, state, running, counterVars, timer_thread, title, menuVars,
                   localVars, cmd>>

StartFocusRunning(t) ==
    /\ pc[t] = "sf_running"
    /\ running' = TRUE
    /\ Goto(t, "sf_title")
    /\ UNCHANGED <<sessions_until_long_rest, last_note, idle_time, menu_for, state, time_remaining, counterVars, timer_thread, title,
                   menuVars, localVars, cmd, ghostVars>>

StartFocusTitle(t) ==
    /\ pc[t] = "sf_title"
    /\ title' = TitleOf(state, time_remaining)
    /\ Goto(t, "sf_menu")
    /\ UNCHANGED <<sessions_until_long_rest, last_note, idle_time, menu_for, sharedVars, counterVars, timer_thread, menuVars, localVars,
                   cmd, ghostVars>>

\* update_menu_state, lines 211-226: the branch taken for self.state
StartFocusMenu(t) ==
    /\ pc[t] = "sf_menu"
    /\ menu_for' = [menu_for EXCEPT ![t] = state]
    /\ Goto(t, "sf_notify")
    /\ UNCHANGED <<sessions_until_long_rest, last_note, idle_time, sharedVars,
                   counterVars, timer_thread, title, menuVars, is_long, tmp,
                   prev_state, cmd, ghostVars>>

\* update_menu_state, lines 212-230: the callbacks of that branch,
\* then notify (lines 255-258)
StartFocusNotify(t) ==
    /\ pc[t] = "sf_notify"
    /\ start_cb' = MenuOf(menu_for[t])[1]
    /\ skip_cb' = MenuOf(menu_for[t])[2]
    /\ stop_cb' = MenuOf(menu_for[t])[3]
    /\ menu_for' = [menu_for EXCEPT ![t] = IDLE]
    /\ last_note' = FOCUS
    /\ prev_state' = [prev_state EXCEPT ![t] = IDLE]
    /\ Goto(t, "sf_thread")
    /\ UNCHANGED <<sessions_until_long_rest, idle_time, sharedVars,
                   counterVars, timer_thread, title, is_long, tmp,
                   cmd, ghostVars>>

\* line 260-261: the liveness check and the creation of the Thread object
StartFocusThread(t) ==
    /\ pc[t] = "sf_thread"
    /\ IF ShouldSpawn
       THEN /\ FreeThreads # {}
            /\ timer_thread' = NewThread
            /\ pc' = [pc EXCEPT ![t] = "sf_start", ![NewThread] = "unstarted"]
       ELSE /\ Goto(t, Return(t))
            /\ UNCHANGED timer_thread
    /\ UNCHANGED <<sessions_until_long_rest, last_note, idle_time, menu_for,
                   sharedVars, counterVars, title, menuVars, localVars, cmd,
                   ghostVars>>

\* line 262: self.timer_thread.start()
StartFocusStart(t) ==
    /\ pc[t] = "sf_start"
    /\ pc' = [pc EXCEPT ![t] = Return(t),
                        ![timer_thread] =
                            IF pc[timer_thread] = "unstarted"
                            THEN "tl_while" ELSE pc[timer_thread]]
    /\ UNCHANGED <<sessions_until_long_rest, last_note, idle_time, menu_for, sharedVars, counterVars, timer_thread, title, menuVars,
                   localVars, cmd, ghostVars>>

\* ---- start_rest (lines 264-284) ----

StartRestState(t) ==
    /\ pc[t] = "rs_state"
    /\ state' = RestState(is_long[t])
    /\ prev_state' = [prev_state EXCEPT ![t] = state]
    /\ Goto(t, "rs_time")
    /\ UNCHANGED <<sessions_until_long_rest, last_note, idle_time, menu_for,
                   time_remaining, running, counterVars, timer_thread, title,
                   menuVars, is_long, tmp, cmd, ghostVars>>

StartRestTime(t) ==
    /\ pc[t] = "rs_time"
    /\ time_remaining' = RestDuration(is_long[t])
    /\ loaded' = RestState(is_long[t])
    /\ ticks' = 0
    /\ Goto(t, "rs_running")
    /\ UNCHANGED <<sessions_until_long_rest, last_note, idle_time, menu_for, state, running, counterVars, timer_thread, title, menuVars,
                   localVars, cmd>>

StartRestRunning(t) ==
    /\ pc[t] = "rs_running"
    /\ running' = TRUE
    /\ Goto(t, "rs_title")
    /\ UNCHANGED <<sessions_until_long_rest, last_note, idle_time, menu_for, state, time_remaining, counterVars, timer_thread, title,
                   menuVars, localVars, cmd, ghostVars>>

StartRestTitle(t) ==
    /\ pc[t] = "rs_title"
    /\ title' = TitleOf(state, time_remaining)
    /\ Goto(t, "rs_menu")
    /\ UNCHANGED <<sessions_until_long_rest, last_note, idle_time, menu_for, sharedVars, counterVars, timer_thread, menuVars, localVars,
                   cmd, ghostVars>>

\* update_menu_state, lines 211-226: the branch taken for self.state
StartRestMenu(t) ==
    /\ pc[t] = "rs_menu"
    /\ menu_for' = [menu_for EXCEPT ![t] = state]
    /\ Goto(t, "rs_notify")
    /\ UNCHANGED <<sessions_until_long_rest, last_note, idle_time, sharedVars,
                   counterVars, timer_thread, title, menuVars, is_long, tmp,
                   prev_state, cmd, ghostVars>>

\* update_menu_state, lines 212-230: the callbacks of that branch,
\* then notify (lines 281-284) and return
StartRestNotify(t) ==
    /\ pc[t] = "rs_notify"
    /\ start_cb' = MenuOf(menu_for[t])[1]
    /\ skip_cb' = MenuOf(menu_for[t])[2]
    /\ stop_cb' = MenuOf(menu_for[t])[3]
    /\ menu_for' = [menu_for EXCEPT ![t] = IDLE]
    /\ last_note' = RestState(is_long[t])
    /\ prev_state' = [prev_state EXCEPT ![t] = IDLE]
    /\ Goto(t, Return(t))
    /\ UNCHANGED <<sessions_until_long_rest, idle_time, sharedVars,
                   counterVars, timer_thread, title, is_long, tmp,
                   cmd, ghostVars>>

\* ---- skip_to_rest (lines 286-290) ----

SkipToRestCheck ==
    /\ pc[Main] = "skr_check"
    /\ Goto(Main, IF SkipToRestApplies(state) THEN "skr_islong" ELSE "main_idle")
    /\ UNCHANGED <<sessions_until_long_rest, last_note, idle_time, menu_for, sharedVars, counterVars, timer_thread, title, menuVars,
                   localVars, cmd, ghostVars>>

SkipToRestIsLong ==
    /\ pc[Main] = "skr_islong"
    /\ is_long' = [is_long EXCEPT
                     ![Main] = SkipIsLong(completed_sessions, sessions_until_long_rest)]
    /\ Goto(Main, "rs_state")
    /\ UNCHANGED <<sessions_until_long_rest, last_note, idle_time, menu_for, sharedVars, counterVars, timer_thread, title, menuVars,
                   tmp, prev_state, cmd, ghostVars>>

\* ---- skip_to_focus (lines 292-295) ----

SkipToFocusCheck ==
    /\ pc[Main] = "skf_check"
    /\ Goto(Main, IF SkipToFocusApplies(state) THEN "sf_state" ELSE "main_idle")
    /\ UNCHANGED <<sessions_until_long_rest, last_note, idle_time, menu_for, sharedVars, counterVars, timer_thread, title, menuVars,
                   localVars, cmd, ghostVars>>

\* ---- stop_timer (lines 297-303) ----

StopRunning ==
    /\ pc[Main] = "st_running"
    /\ running' = FALSE
    /\ Goto(Main, "st_state")
    /\ UNCHANGED <<sessions_until_long_rest, last_note, idle_time, menu_for, state, time_remaining, counterVars, timer_thread, title,
                   menuVars, localVars, cmd, ghostVars>>

StopState ==
    /\ pc[Main] = "st_state"
    /\ state' = IDLE
    /\ Goto(Main, "st_time")
    /\ UNCHANGED <<sessions_until_long_rest, last_note, idle_time, menu_for, time_remaining, running, counterVars, timer_thread, title,
                   menuVars, localVars, cmd, ghostVars>>

StopTime ==
    /\ pc[Main] = "st_time"
    /\ time_remaining' = 0
    /\ loaded' = "none"
    /\ ticks' = 0
    /\ Goto(Main, "st_title")
    /\ UNCHANGED <<sessions_until_long_rest, last_note, idle_time, menu_for, state, running, counterVars, timer_thread, title, menuVars,
                   localVars, cmd>>

StopTitle ==
    /\ pc[Main] = "st_title"
    /\ title' = TitleOf(state, time_remaining)
    /\ Goto(Main, "st_menu")
    /\ UNCHANGED <<sessions_until_long_rest, last_note, idle_time, menu_for, sharedVars, counterVars, timer_thread, menuVars, localVars,
                   cmd, ghostVars>>

\* update_menu_state, lines 211-226: the branch taken for self.state
StopMenu ==
    /\ pc[Main] = "st_menu"
    /\ menu_for' = [menu_for EXCEPT ![Main] = state]
    /\ Goto(Main, "st_apply")
    /\ UNCHANGED <<sessions_until_long_rest, last_note, idle_time, sharedVars,
                   counterVars, timer_thread, title, menuVars, is_long, tmp,
                   prev_state, cmd, ghostVars>>

\* update_menu_state, lines 212-230: the callbacks of that branch
StopMenuApply ==
    /\ pc[Main] = "st_apply"
    /\ start_cb' = MenuOf(menu_for[Main])[1]
    /\ skip_cb' = MenuOf(menu_for[Main])[2]
    /\ stop_cb' = MenuOf(menu_for[Main])[3]
    /\ menu_for' = [menu_for EXCEPT ![Main] = IDLE]
    /\ Goto(Main, "main_idle")
    /\ UNCHANGED <<sessions_until_long_rest, idle_time, sharedVars,
                   counterVars, timer_thread, title, is_long, tmp, prev_state, last_note,
                   cmd, ghostVars>>

\* ---- wait_for_user (lines 305-322), run by a timer thread ----

WaitState(t) ==
    /\ pc[t] = "wu_state"
    /\ state' = WAITING_FOR_USER
    /\ prev_state' = [prev_state EXCEPT ![t] = state]
    /\ Goto(t, "wu_title")
    /\ UNCHANGED <<sessions_until_long_rest, last_note, idle_time, menu_for,
                   time_remaining, running, counterVars, timer_thread, title,
                   menuVars, is_long, tmp, cmd, ghostVars>>

WaitTitle(t) ==
    /\ pc[t] = "wu_title"
    /\ title' = TitleOf(state, time_remaining)
    /\ Goto(t, "wu_menu")
    /\ UNCHANGED <<sessions_until_long_rest, last_note, idle_time, menu_for, sharedVars, counterVars, timer_thread, menuVars, localVars,
                   cmd, ghostVars>>

\* update_menu_state, lines 211-226: the branch taken for self.state
WaitMenu(t) ==
    /\ pc[t] = "wu_menu"
    /\ menu_for' = [menu_for EXCEPT ![t] = state]
    /\ Goto(t, "wu_notify")
    /\ UNCHANGED <<sessions_until_long_rest, last_note, idle_time, sharedVars,
                   counterVars, timer_thread, title, menuVars, is_long, tmp,
                   prev_state, cmd, ghostVars>>

\* update_menu_state, lines 212-230: the callbacks of that branch,
\* then notify (lines 311-314)
WaitNotify(t) ==
    /\ pc[t] = "wu_notify"
    /\ start_cb' = MenuOf(menu_for[t])[1]
    /\ skip_cb' = MenuOf(menu_for[t])[2]
    /\ stop_cb' = MenuOf(menu_for[t])[3]
    /\ menu_for' = [menu_for EXCEPT ![t] = IDLE]
    /\ last_note' = WAITING_FOR_USER
    /\ prev_state' = [prev_state EXCEPT ![t] = IDLE]
    /\ Goto(t, "wu_while")
    /\ UNCHANGED <<sessions_until_long_rest, idle_time, sharedVars,
                   counterVars, timer_thread, title, is_long, tmp,
                   cmd, ghostVars>>

\* line 317: the polling loop's condition; leaving it returns to timer_loop
WaitWhile(t) ==
    /\ pc[t] = "wu_while"
    /\ Goto(t, IF running /\ state = WAITING_FOR_USER
               THEN "wu_probe" ELSE "tl_while")
    /\ UNCHANGED <<sessions_until_long_rest, last_note, idle_time, menu_for, sharedVars, counterVars, timer_thread, title, menuVars,
                   localVars, cmd, ghostVars>>

\* line 318: idle_time = self.get_idle_time()
WaitProbe(t) ==
    /\ pc[t] = "wu_probe"
    /\ \E seconds \in IdleTimes :
         idle_time' = [idle_time EXCEPT ![t] = seconds]
    /\ Goto(t, "wu_if")
    /\ UNCHANGED <<sessions_until_long_rest, last_note, menu_for, sharedVars,
                   counterVars, timer_thread, title, menuVars, localVars, cmd,
                   ghostVars>>

\* lines 319-322: start_focus() and return, or sleep a second and poll again
WaitActive(t) ==
    /\ pc[t] = "wu_if"
    /\ Goto(t, IF UserActive(idle_time[t]) THEN "sf_state" ELSE "wu_while")
    /\ idle_time' = [idle_time EXCEPT ![t] = 0]
    /\ UNCHANGED <<sessions_until_long_rest, last_note, menu_for, sharedVars,
                   counterVars, timer_thread, title, menuVars, localVars, cmd,
                   ghostVars>>

\* ---- timer_loop (lines 324-351), run by a timer thread ----

LoopWhile(t) ==
    /\ pc[t] = "tl_while"
    /\ Goto(t, IF running THEN "tl_state" ELSE "tl_exit")
    /\ UNCHANGED <<sessions_until_long_rest, last_note, idle_time, menu_for, sharedVars, counterVars, timer_thread, title, menuVars,
                   localVars, cmd, ghostVars>>

\* line 327; in the other states the loop sleeps half a second (348, 351)
LoopState(t) ==
    /\ pc[t] = "tl_state"
    /\ Goto(t, IF state \in TimedStates THEN "tl_rem" ELSE "tl_while")
    /\ UNCHANGED <<sessions_until_long_rest, last_note, idle_time, menu_for, sharedVars, counterVars, timer_thread, title, menuVars,
                   localVars, cmd, ghostVars>>

\* line 328
LoopRemaining(t) ==
    /\ pc[t] = "tl_rem"
    /\ Goto(t, IF time_remaining > 0 THEN "tl_sleep" ELSE "tl_fin")
    /\ UNCHANGED <<sessions_until_long_rest, last_note, idle_time, menu_for, sharedVars, counterVars, timer_thread, title, menuVars,
                   localVars, cmd, ghostVars>>

\* lines 329-330: after the sleep, the load of self.time_remaining
LoopSleep(t) ==
    /\ pc[t] = "tl_sleep"
    /\ tmp' = [tmp EXCEPT ![t] = time_remaining]
    /\ Goto(t, "tl_dec")
    /\ UNCHANGED <<sessions_until_long_rest, last_note, idle_time, menu_for, sharedVars, counterVars, timer_thread, title, menuVars,
                   is_long, prev_state, cmd, ghostVars>>

\* line 330: the store of self.time_remaining - 1
LoopDecrement(t) ==
    /\ pc[t] = "tl_dec"
    /\ time_remaining' = tmp[t] - 1
    /\ ticks' = ticks + 1
    /\ tmp' = [tmp EXCEPT ![t] = 0]
    /\ Goto(t, "tl_title")
    /\ UNCHANGED <<sessions_until_long_rest, last_note, idle_time, menu_for, state, running, counterVars, timer_thread, title, menuVars,
                   is_long, prev_state, cmd, loaded>>

LoopTitle(t) ==
    /\ pc[t] = "tl_title"
    /\ title' = TitleOf(state, time_remaining)
    /\ Goto(t, "tl_while")
    /\ UNCHANGED <<sessions_until_long_rest, last_note, idle_time, menu_for, sharedVars, counterVars, timer_thread, menuVars, localVars,
                   cmd, ghostVars>>

\* lines 334, 343: which countdown finished
LoopFinished(t) ==
    /\ pc[t] = "tl_fin"
    /\ Goto(t, IF state = FOCUS THEN "tl_inc"
               ELSE IF state \in RestStates THEN "wu_state" ELSE "tl_while")
    /\ UNCHANGED <<sessions_until_long_rest, last_note, idle_time, menu_for, sharedVars, counterVars, timer_thread, title, menuVars,
                   localVars, cmd, ghostVars>>

\* line 335
LoopIncCompleted(t) ==
    /\ pc[t] = "tl_inc"
    /\ completed_sessions < MaxSessions
    /\ completed_sessions' = completed_sessions + 1
    /\ Goto(t, "tl_today")
    /\ UNCHANGED <<sessions_until_long_rest, last_note, idle_time, menu_for, sharedVars, sessions_today, timer_thread, title, menuVars,
                   localVars, cmd, ghostVars>>

\* the loop forgetting the second counter
LoopIncTodaySkipped(t) ==
    /\ pc[t] = "tl_today"
    /\ Goto(t, "tl_menu")
    /\ UNCHANGED <<sessions_until_long_rest, last_note, idle_time, menu_for,
                   sharedVars, counterVars, timer_thread, title, menuVars,
                   localVars, cmd, ghostVars>>

\* line 336
LoopIncToday(t) ==
    /\ pc[t] = "tl_today"
    /\ sessions_today' = sessions_today + 1
    /\ Goto(t, "tl_menu")
    /\ UNCHANGED <<sessions_until_long_rest, last_note, idle_time, menu_for, sharedVars, completed_sessions, timer_thread, title,
                   menuVars, localVars, cmd, ghostVars>>

\* update_menu_state, lines 211-226: the branch taken for self.state
LoopMenu(t) ==
    /\ pc[t] = "tl_menu"
    /\ menu_for' = [menu_for EXCEPT ![t] = state]
    /\ Goto(t, "tl_apply")
    /\ UNCHANGED <<sessions_until_long_rest, last_note, idle_time, sharedVars,
                   counterVars, timer_thread, title, menuVars, is_long, tmp,
                   prev_state, cmd, ghostVars>>

\* update_menu_state, lines 212-230: the callbacks of that branch
LoopMenuApply(t) ==
    /\ pc[t] = "tl_apply"
    /\ start_cb' = MenuOf(menu_for[t])[1]
    /\ skip_cb' = MenuOf(menu_for[t])[2]
    /\ stop_cb' = MenuOf(menu_for[t])[3]
    /\ menu_for' = [menu_for EXCEPT ![t] = IDLE]
    /\ Goto(t, "tl_islong")
    /\ UNCHANGED <<sessions_until_long_rest, idle_time, sharedVars,
                   counterVars, timer_thread, title, is_long, tmp, prev_state, last_note,
                   cmd, ghostVars>>

\* lines 340-341
LoopIsLong(t) ==
    /\ pc[t] = "tl_islong"
    /\ is_long' = [is_long EXCEPT
                     ![t] = NaturalIsLong(completed_sessions, sessions_until_long_rest)]
    /\ Goto(t, "rs_state")
    /\ UNCHANGED <<sessions_until_long_rest, last_note, idle_time, menu_for, sharedVars, counterVars, timer_thread, title, menuVars,
                   tmp, prev_state, cmd, ghostVars>>

\* the loop condition was false: timer_loop returns and the thread ends
LoopExit(t) ==
    /\ pc[t] = "tl_exit"
    /\ Goto(t, "dead")
    /\ UNCHANGED <<sessions_until_long_rest, last_note, idle_time, menu_for, sharedVars, counterVars, timer_thread, title, menuVars,
                   localVars, cmd, ghostVars>>

Next ==
    \/ ClickStartFocus
    \/ ClickSkip
    \/ ClickStop
    \/ ClickQuit
    \/ QuitRunning
    \/ QuitApplication
    \/ SkipToRestCheck
    \/ SkipToRestIsLong
    \/ SkipToFocusCheck
    \/ StopRunning
    \/ StopState
    \/ StopTime
    \/ StopTitle
    \/ StopMenu
    \/ StopMenuApply
    \/ \E t \in Threads : StartFocusState(t)
    \/ \E t \in Threads : StartFocusTime(t)
    \/ \E t \in Threads : StartFocusRunning(t)
    \/ \E t \in Threads : StartFocusTitle(t)
    \/ \E t \in Threads : StartFocusMenu(t)
    \/ \E t \in Threads : StartFocusNotify(t)
    \/ \E t \in Threads : StartFocusThread(t)
    \/ \E t \in Threads : StartFocusStart(t)
    \/ \E t \in Threads : StartRestState(t)
    \/ \E t \in Threads : StartRestTime(t)
    \/ \E t \in Threads : StartRestRunning(t)
    \/ \E t \in Threads : StartRestTitle(t)
    \/ \E t \in Threads : StartRestMenu(t)
    \/ \E t \in Threads : StartRestNotify(t)
    \/ \E t \in Timers : WaitState(t)
    \/ \E t \in Timers : WaitTitle(t)
    \/ \E t \in Timers : WaitMenu(t)
    \/ \E t \in Timers : WaitNotify(t)
    \/ \E t \in Timers : WaitWhile(t)
    \/ \E t \in Timers : WaitProbe(t)
    \/ \E t \in Timers : WaitActive(t)
    \/ \E t \in Timers : LoopWhile(t)
    \/ \E t \in Timers : LoopState(t)
    \/ \E t \in Timers : LoopRemaining(t)
    \/ \E t \in Timers : LoopSleep(t)
    \/ \E t \in Timers : LoopDecrement(t)
    \/ \E t \in Timers : LoopTitle(t)
    \/ \E t \in Timers : LoopFinished(t)
    \/ \E t \in Timers : LoopIncCompleted(t)
    \/ \E t \in Timers : LoopIncToday(t)
    \/ \E t \in Timers : LoopMenu(t)
    \/ \E t \in Timers : LoopMenuApply(t)
    \/ \E t \in Timers : LoopIsLong(t)
    \/ \E t \in Timers : LoopExit(t)

Spec == Init /\ [][Next]_vars

\* the steps of a callback the main thread has begun (a click is not one)
MainStep ==
    \/ QuitRunning
    \/ QuitApplication
    \/ SkipToRestCheck
    \/ SkipToRestIsLong
    \/ SkipToFocusCheck
    \/ StopRunning
    \/ StopState
    \/ StopTime
    \/ StopTitle
    \/ StopMenu
    \/ StopMenuApply
    \/ StartFocusState(Main)
    \/ StartFocusTime(Main)
    \/ StartFocusRunning(Main)
    \/ StartFocusTitle(Main)
    \/ StartFocusMenu(Main)
    \/ StartFocusNotify(Main)
    \/ StartFocusThread(Main)
    \/ StartFocusStart(Main)
    \/ StartRestState(Main)
    \/ StartRestTime(Main)
    \/ StartRestRunning(Main)
    \/ StartRestTitle(Main)
    \/ StartRestMenu(Main)
    \/ StartRestNotify(Main)

\* the steps of a timer thread
TimerStep(t) ==
    \/ StartFocusState(t)
    \/ StartFocusTime(t)
    \/ StartFocusRunning(t)
    \/ StartFocusTitle(t)
    \/ StartFocusMenu(t)
    \/ StartFocusNotify(t)
    \/ StartFocusThread(t)
    \/ StartFocusStart(t)
    \/ StartRestState(t)
    \/ StartRestTime(t)
    \/ StartRestRunning(t)
    \/ StartRestTitle(t)
    \/ StartRestMenu(t)
    \/ StartRestNotify(t)
    \/ WaitState(t)
    \/ WaitTitle(t)
    \/ WaitMenu(t)
    \/ WaitNotify(t)
    \/ WaitWhile(t)
    \/ WaitProbe(t)
    \/ WaitActive(t)
    \/ LoopWhile(t)
    \/ LoopState(t)
    \/ LoopRemaining(t)
    \/ LoopSleep(t)
    \/ LoopDecrement(t)
    \/ LoopTitle(t)
    \/ LoopFinished(t)
    \/ LoopIncCompleted(t)
    \/ LoopIncToday(t)
    \/ LoopMenu(t)
    \/ LoopMenuApply(t)
    \/ LoopIsLong(t)
    \/ LoopExit(t)

\* Every thread that can take a step eventually takes one (the scheduler is
\* fair and every sleep ends); the user is free never to click again.
SpecFair ==
    /\ Init
    /\ [][Next]_vars
    /\ WF_vars(MainStep)
    /\ \A t \in Timers : WF_vars(TimerStep(t))

\* The same program constructed with any threshold and any number of
\* sessions already counted: the inputs of the two rest-type computations.
InitRest ==
    /\ state = IDLE
    /\ time_remaining = 0
    /\ running = FALSE
    /\ completed_sessions \in 0..(MaxSessions - 1)
    /\ sessions_today = completed_sessions
    /\ sessions_until_long_rest \in 1..MaxThreshold
    /\ timer_thread = 0
    /\ title = <<"tomato", "Ready", 0, 0>>
    /\ start_cb = TRUE
    /\ skip_cb = "none"
    /\ stop_cb = FALSE
    /\ pc = [t \in Threads |-> IF t = Main THEN "main_idle" ELSE "none"]
    /\ is_long = [t \in Threads |-> FALSE]
    /\ tmp = [t \in Threads |-> 0]
    /\ cmd = "none"
    /\ loaded = "none"
    /\ ticks = 0
    /\ prev_state = [t \in Threads |-> IDLE]
    /\ last_note = "none"
    /\ idle_time = [t \in Threads |-> 0]
    /\ menu_for = [t \in Threads |-> IDLE]

SpecRest == InitRest /\ [][Next]_vars

\* ---- properties ----

StopDone == cmd = "stop_timer" /\ pc[Main] = "main_idle"

\* C1: once stop_timer has returned, and until the next command, the state
\* is Idle, time_remaining is 0 and no decrement has been stored since.
C1_StopLeavesIdle ==
    StopDone => (state = IDLE /\ time_remaining = 0 /\ ticks = 0)

\* C2: time_remaining is never negative.
C2_NonNegative == time_remaining >= 0

\* C3: after stop_timer has returned, and until the next command, no step
\* writes state, time_remaining, running or the counters.
C3_StopLinearized ==
    [][StopDone => UNCHANGED <<state, time_remaining, running,
                               completed_sessions, sessions_today>>]_vars

\* C4: at most one timer_loop thread is alive.
C4_AtMostOneLoop == Cardinality({t \in Timers : Alive(t)}) <= 1

\* a start_focus issued by skip_to_focus has returned, after at least one
\* counted session, without replacing the loop thread that is alive
C4_Witness ==
    /\ timer_thread # 0
    /\ Alive(timer_thread)
    /\ cmd = "skip_to_focus"
    /\ pc[Main] = "main_idle"
    /\ state = FOCUS
    /\ completed_sessions > 0

\* C5: when the loop enters a rest after counting a focus session, the rest
\* is the long one iff the counter is a multiple of the threshold.
C5_NaturalRestType ==
    [][\A t \in Timers :
         (pc[t] = "rs_state" /\ pc'[t] = "rs_time") =>
            /\ state' \in RestStates
            /\ (state' = LONG_REST) <=>
                   (completed_sessions % sessions_until_long_rest = 0)]_vars

C5_Witness ==
    /\ \E t \in Timers : pc[t] = "rs_time"
    /\ state = LONG_REST
    /\ completed_sessions = SessionsUntilLongRest

\* C6: the rest type skip_to_rest computes from the counter it reads is the
\* one the loop computes after incrementing that same counter value.
C6_SkipMatchesNatural ==
    [][(pc[Main] = "skr_islong" /\ pc'[Main] = "rs_state") =>
         (RestState(is_long'[Main]) =
            RestState(NaturalIsLong(completed_sessions + 1,
                                    sessions_until_long_rest)))]_vars

C6_Witness ==
    /\ pc[Main] = "rs_time"
    /\ state = LONG_REST
    /\ sessions_until_long_rest = MaxThreshold
    /\ completed_sessions = MaxThreshold - 1

\* C7: each counter changes only by +1, and the loop decides to count a
\* session only when a focus countdown was ticked from focus_duration to 0.
C7_CountOnlyCompletions ==
    [][/\ completed_sessions' \in {completed_sessions, completed_sessions + 1}
       /\ sessions_today' \in {sessions_today, sessions_today + 1}
       /\ \A t \in Timers :
            (pc[t] = "tl_fin" /\ pc'[t] = "tl_inc") =>
               (loaded = "focus" /\ ticks = FocusDuration)]_vars

\* C8: in Idle, running is false.
C8_IdleNotRunning == state = IDLE => ~running

\* C9: state and time_remaining are a consistent pair.
C9_ConsistentPair ==
    /\ state \in {IDLE, WAITING_FOR_USER} => time_remaining = 0
    /\ state = FOCUS => time_remaining <= FocusDuration
    /\ state = SHORT_REST => time_remaining <= ShortRestDuration
    /\ state = LONG_REST => time_remaining <= LongRestDuration

\* C10: a start_focus that finds the state already Focus, with the countdown
\* loaded for that focus session, leaves state and time_remaining as they were.
C10_RefocusNoOp ==
    [][\A t \in Threads :
         (/\ pc[t] = "sf_time" /\ pc'[t] = "sf_running"
          /\ prev_state[t] = FOCUS /\ state = FOCUS /\ loaded = "focus")
            => (state' = state /\ time_remaining' = time_remaining)]_vars

\* C11: skip_to_rest run in a state other than Focus, and skip_to_focus run
\* in a state other than a rest, return at once: no attribute of the timer
\* changes and nothing is notified.
C11_InapplicableNoOp ==
    [][/\ (pc[Main] = "skr_check" /\ pc'[Main] # "skr_check" /\ state # FOCUS)
            => /\ pc'[Main] = "main_idle"
               /\ UNCHANGED <<state, time_remaining, running,
                              completed_sessions, sessions_today, last_note>>
       /\ (pc[Main] = "skf_check" /\ pc'[Main] # "skf_check"
              /\ state \notin RestStates)
            => /\ pc'[Main] = "main_idle"
               /\ UNCHANGED <<state, time_remaining, running,
                              completed_sessions, sessions_today, last_note>>]_vars

\* Skip to Focus was clicked during a rest reached by skipping, the rest ran
\* out before the callback tested the state, and the callback did nothing
C11_Witness ==
    /\ cmd = "skip_to_focus"
    /\ pc[Main] = "main_idle"
    /\ state = WAITING_FOR_USER
    /\ completed_sessions = 0

\* C12: a poll in wait_for_user calls start_focus exactly when the probe
\* returned less than 3 seconds; that call stores Focus and focus_duration
\* and leaves the counters alone; otherwise the poll leaves the state as it
\* is and goes back to the polling loop.
C12_PollThreshold ==
    [][\A t \in Timers :
         /\ (pc[t] = "wu_if" /\ pc'[t] \notin {"wu_if", "dead"})
              => IF idle_time[t] < 3
                 THEN pc'[t] = "sf_state" /\ state' = state
                 ELSE pc'[t] = "wu_while" /\ state' = state
         /\ (pc[t] = "sf_state" /\ pc'[t] = "sf_time")
              => (state' = FOCUS /\ UNCHANGED counterVars)
         /\ (pc[t] = "sf_time" /\ pc'[t] = "sf_running")
              => (time_remaining' = FocusDuration /\ UNCHANGED counterVars)]_vars

\* after one counted session and its rest, a poll has started the next focus
C12_Witness ==
    /\ \E t \in Timers : pc[t] = "sf_running"
    /\ state = FOCUS
    /\ time_remaining = FocusDuration
    /\ completed_sessions = 1
    /\ cmd = "start_focus"

\* the title of an active countdown showing 00:00
ZeroCountdownTitles == {<<"tomato", "time", 0, 0>>, <<"coffee", "time", 0, 0>>}

\* C13: in a timed state every tick lowers time_remaining by exactly 1, and
\* the title never shows an active countdown of 00:00.
C13_TickNoZeroTitle ==
    [][/\ \A t \in Timers :
            (pc[t] = "tl_dec" /\ pc'[t] = "tl_title" /\ state \in TimedStates)
               => time_remaining' = time_remaining - 1
       /\ title' \notin ZeroCountdownTitles]_vars

\* C14: wait_for_user stores WaitingForUser only over a rest state whose
\* countdown was loaded for that rest and ticked down its whole duration.
C14_WaitingAfterFullRest ==
    [][\A t \in Timers :
         (pc[t] = "wu_state" /\ pc'[t] = "wu_title")
            => /\ state \in RestStates
               /\ loaded = state
               /\ ticks = RestDuration(state = LONG_REST)]_vars

\* start_focus has returned, the state is Focus with running set, and the
\* counter still has room for this session
FocusStarted ==
    /\ cmd = "start_focus"
    /\ pc[Main] = "main_idle"
    /\ state = FOCUS
    /\ running
    /\ completed_sessions < MaxSessions

\* C15: once start_focus has left the timer in Focus with running set, a
\* rest state is eventually entered unless the user issues another command.
C15_FocusCompletes ==
    FocusStarted ~> (state \in RestStates \/ pc[Main] # "main_idle")

NoLoopAlive == \A t \in Timers : ~Alive(t)

\* C16: after stop_timer or quit_app has returned, every timer_loop thread
\* eventually ends unless the user issues another command (or the session
\* counter reaches MaxSessions, where the model stops counting).
C16_LoopExits ==
    (StopDone \/ pc[Main] = "exited")
        ~> \/ NoLoopAlive
           \/ pc[Main] \notin {"main_idle", "exited"}
           \/ completed_sessions = MaxSessions

\* positions at which a thread is inside no command and no transition: the
\* main thread between callbacks, a timer thread counting down or polling
SettledLabels ==
    {"main_idle", "none", "unstarted", "dead", "tl_while", "tl_state",
     "tl_rem", "tl_sleep", "tl_dec", "tl_title", "tl_exit", "wu_while",
     "wu_probe", "wu_if"}

Settled == \A t \in Threads : pc[t] \in SettledLabels

\* C17: when no command and no transition is in progress, the enabled menu
\* commands are the ones of the current state.
C17_MenuMatchesState ==
    Settled =>
        /\ start_cb <=> state \in {IDLE, WAITING_FOR_USER}
        /\ (skip_cb = "skip_to_rest") <=> state = FOCUS
        /\ (skip_cb = "skip_to_focus") <=> state \in RestStates
        /\ stop_cb <=> state # IDLE

\* C18: while the application runs, sessions_today equals completed_sessions
\* except while the loop is between its two increments (lines 335 and 336).
C18_CountersEqual ==
    (pc[Main] # "exited" /\ \A t \in Timers : pc[t] # "tl_today")
        => sessions_today = completed_sessions

\* two sessions were counted and the loop is counting down the rest
C18_Witness ==
    /\ completed_sessions = 2
    /\ sessions_today = 2
    /\ state \in RestStates
    /\ \E t \in Timers : pc[t] = "tl_sleep"

\* C19: a notification announces an entry into its state: the thread that
\* notifies "focus" stored FOCUS over another state, the one that notifies a
\* rest stored the rest over a state that was not a rest, the one that
\* notifies "ready" stored WAITING_FOR_USER over another state; stop_timer
\* notifies nothing.
C19_OneNotePerEntry ==
    [][/\ \A t \in Threads :
            (pc[t] = "sf_notify" /\ pc'[t] = "sf_thread")
                => prev_state[t] # FOCUS
       /\ \A t \in Threads :
            (pc[t] = "rs_notify" /\ pc'[t] \notin {"rs_notify", "dead"})
                => prev_state[t] \notin RestStates
       /\ \A t \in Threads :
            (pc[t] = "wu_notify" /\ pc'[t] = "wu_while")
                => prev_state[t] # WAITING_FOR_USER
       /\ (pc[Main] \in {"st_running", "st_state", "st_time", "st_title",
                          "st_menu", "st_apply"} /\ pc'[Main] # pc[Main])
                => last_note' = last_note]_vars

====
